---------------------------- MODULE Spec2Model ----------------------------
(***************************************************************************)
(* A model of src/bankfile.py: the Bookkeeper class, which holds a table   *)
(* of Mint transactions and offers one analysis method per report.         *)
(*                                                                         *)
(* Conventions of the model                                                *)
(*  - a calendar date / pandas Timestamp at midnight is a triple <<y,m,d>>; *)
(*  - an amount is an integer number of cents (12.50 dollars is 1250);     *)
(*  - a description is a sequence of one-character strings;                *)
(*  - a data frame is the store `transactions` plus a sequence of row      *)
(*    labels into it (boolean indexing keeps the labels and their order);  *)
(*    pandas numbers the rows 0..n-1, the model 1..n;                      *)
(*  - floating point arithmetic is modelled by exact rational arithmetic   *)
(*    (quartiles are kept multiplied by 4);                                *)
(*  - `sorted` is the sort the call at hand has had numpy do: the column,  *)
(*    its values and the arrangement that came out.                        *)
(***************************************************************************)
EXTENDS Integers, Sequences, FiniteSets, TLC

VARIABLES transactions, earliest, latest, pc, call, frames, out, sorted

vars == <<transactions, earliest, latest, pc, call, frames, out, sorted>>

(***************************************************************************)
(* Bounds of the model.                                                    *)
(***************************************************************************)
\* rows of a store in the date-filter specification
MaxRows == 3
\* rows added to the fixed statement in the suspicious-charges specification
MaxExtra == 2
\* rows of a store in the income-versus-spending specification
MaxAdviceRows == 3
\* rows added to the fixed statement in the category specification
MaxCatExtra == 2
\* largest number of categories asked of top_categories
MaxAmt == 2
\* rows of a store in the days-of-the-week specification
MaxDowRows == 3
\* rows of a store in the period-comparison specification
MaxCmpRows == 3
\* rows of a store in the search specification
MaxSearchRows == 3

\* the default of amt in the signature of top_categories
DefaultAmt == 5

(***************************************************************************)
(* Python values.                                                          *)
(***************************************************************************)
\* the int 0, the default of start_date/end_date in most signatures
Zero == [t |-> "int", a |-> 0, b |-> 0, c |-> 0]
\* None
None == [t |-> "None", a |-> 0, b |-> 0, c |-> 0]
\* marks an argument the caller leaves out
Omitted == [t |-> "omitted", a |-> 0, b |-> 0, c |-> 0]

\* str(datetime.date): "YYYY-MM-DD", the fields in the order they are written
IsoStr(date) == [t |-> "str-iso", a |-> date[1], b |-> date[2], c |-> date[3]]
\* a date string as the command line gives it: "MM-DD-YYYY"
MdyStr(date) == [t |-> "str-mdy", a |-> date[2], b |-> date[3], c |-> date[1]]

\* account=None, and an account name
AccountNone == [t |-> "None", s |-> ""]

AccountStr(name) == [t |-> "str", s |-> name]

\* the method called and the arguments as the caller wrote them
MkCall(op, start_arg, end_arg, account, amt, desc) ==
    [op |-> op, start_date |-> start_arg, end_date |-> end_arg,
     account |-> account, amt |-> amt, desc |-> desc]

NoCall == MkCall("none", Omitted, Omitted, AccountNone, 0, <<>>)

\* no sort done yet
NoSort == [column |-> "", keys |-> <<>>, order |-> <<>>]

\* the argument a call binds: the signature's default when it is left out
Bind(arg, default) == IF arg = Omitted THEN default ELSE arg

(***************************************************************************)
(* Dates.                                                                  *)
(***************************************************************************)
\* pandas parses a string compared with a datetime64 column to a Timestamp:
\* year first for the ISO form, month first for MM-DD-YYYY
ToTimestamp(s) ==
    IF s.t = "str-iso" THEN <<s.a, s.b, s.c>> ELSE <<s.c, s.a, s.b>>

\* Timestamp order, both at midnight
DateLE(x, y) ==
    \/ x[1] < y[1]
    \/ x[1] = y[1] /\ x[2] < y[2]
    \/ x[1] = y[1] /\ x[2] = y[2] /\ x[3] <= y[3]

\* the days the model's rows fall on: the turn of a year, so that month and
\* year both change inside the range
Calendar == << <<2019, 12, 30>>, <<2019, 12, 31>>, <<2020, 1, 1>> >>

Days == {Calendar[i] : i \in DOMAIN Calendar}

(***************************************************************************)
(* Sequences.                                                              *)
(***************************************************************************)
Range(s) == {s[i] : i \in DOMAIN s}

RECURSIVE SumSeq(_)
SumSeq(s) == IF s = <<>> THEN 0 ELSE Head(s) + SumSeq(Tail(s))

\* the sequences over S of length 0..n
SeqsUpTo(S, n) == UNION {[1..k -> S] : k \in 0..n}

\* the first n elements (DataFrame.head)
HeadN(s, n) == SubSeq(s, 1, IF n < Len(s) THEN n ELSE Len(s))

(***************************************************************************)
(* The store: Bookkeeper.__init__.                                         *)
(***************************************************************************)
Row(date, description, amount, type, category, account) ==
    [Date |-> date, Description |-> description, Amount |-> amount,
     Type |-> type, Category |-> category, Account |-> account]

AllLabels == 1..Len(transactions)

Labels == [i \in AllLabels |-> i]

RECURSIVE MinDate(_)
MinDate(rows) ==
    IF Len(rows) = 1 THEN rows[1].Date
    ELSE LET m == MinDate(Tail(rows))
         IN  IF DateLE(rows[1].Date, m) THEN rows[1].Date ELSE m

RECURSIVE MaxDate(_)
MaxDate(rows) ==
    IF Len(rows) = 1 THEN rows[1].Date
    ELSE LET m == MaxDate(Tail(rows))
         IN  IF DateLE(m, rows[1].Date) THEN rows[1].Date ELSE m

\* the state a Bookkeeper is in once constructed from a file of `rows`
\* (min() of an empty column raises: there is no Bookkeeper of no rows)
Construct(rows) ==
    /\ rows # <<>>
    /\ transactions = rows
    /\ earliest = IsoStr(MinDate(rows))
    /\ latest = IsoStr(MaxDate(rows))
    /\ pc = "idle"
    /\ call = NoCall
    /\ frames = <<>>
    /\ out = <<>>
    /\ sorted = NoSort

(***************************************************************************)
(* The date filter every method builds.                                    *)
(***************************************************************************)
\* a datetime64 column compared with None raises TypeError (pandas builds
\* that answer all-False give an empty frame instead, see financial_advice)
DateFilterRaises(start_date, end_date) ==
    start_date.t = "None" \/ end_date.t = "None"

\* date_filter with the end of the range left out (Date < end_date)
date_filter_open_end(start_date, end_date, i) ==
    /\ DateLE(transactions[i].Date, ToTimestamp(end_date))
    /\ transactions[i].Date # ToTimestamp(end_date)
    /\ DateLE(ToTimestamp(start_date), transactions[i].Date)

\* (Date <= end_date) & (Date >= start_date)
date_filter(start_date, end_date, i) ==
    /\ DateLE(transactions[i].Date, ToTimestamp(end_date))
    /\ DateLE(ToTimestamp(start_date), transactions[i].Date)

\* self.transactions[date_filter]
DateView(start_date, end_date) ==
    SelectSeq(Labels, LAMBDA i : date_filter(start_date, end_date, i))

\* start_date/end_date after `if start_date == 0: start_date = self.earliest`
OrEarliest(start_date) == IF start_date = Zero THEN earliest ELSE start_date

OrLatest(end_date) == IF end_date = Zero THEN latest ELSE end_date

\* the method is over: the caller has its result and the frame is gone
Return ==
    /\ pc # "idle"
    /\ pc' = "idle"
    /\ call' = NoCall
    /\ frames' = <<>>
    /\ out' = <<>>
    /\ sorted' = NoSort
    /\ UNCHANGED <<transactions, earliest, latest>>


(***************************************************************************)
(* suspicious_charges.                                                     *)
(***************************************************************************)
\* a float that may be NaN; quartiles and fences are held multiplied by 4
NaN == [nan |-> TRUE, v |-> 0]

Num(v) == [nan |-> FALSE, v |-> v]

AmountsOf(rows) == [k \in 1..Len(rows) |-> transactions[rows[k]].Amount]

\* 4 * DataFrame.quantile(q = q4/4, interpolation='linear') of the Amount
\* column of `rows`: the value at position q*(n-1) of the sorted amounts,
\* interpolated between its two neighbours; NaN for no rows
Quantile4(rows, q4) ==
    LET n == Len(rows)
        s == SortSeq(AmountsOf(rows), LAMBDA x, y : x < y)
        p == q4 * (n - 1)
        k == p \div 4
        r == p % 4
    IN  IF n = 0 THEN NaN
        ELSE IF r = 0 THEN Num(4 * s[k + 1])
        ELSE Num(4 * s[k + 1] + r * (s[k + 2] - s[k + 1]))

\* lower = q1 - 3*iqr, with iqr = q3 - q1
LowerFence(q1, q3) ==
    IF q1.nan \/ q3.nan THEN NaN ELSE Num(q1.v - 3 * (q3.v - q1.v))

\* upper = q3 + 3*iqr
UpperFence(q1, q3) ==
    IF q1.nan \/ q3.nan THEN NaN ELSE Num(q3.v + 3 * (q3.v - q1.v))

\* IsSuspicious with the test read as ((< lower) | (> upper)) & debit
IsSuspicious_debits_only(i, lower, upper) ==
    /\ \/ ~lower.nan /\ 4 * transactions[i].Amount < lower.v
       \/ ~upper.nan /\ 4 * transactions[i].Amount > upper.v
    /\ transactions[i].Type = "debit"

\* (Amount < lower) | (Amount > upper) & (Transaction Type == "debit"):
\* & binds tighter than |, and a comparison with NaN is False
IsSuspicious(i, lower, upper) ==
    \/ ~lower.nan /\ 4 * transactions[i].Amount < lower.v
    \/ /\ ~upper.nan /\ 4 * transactions[i].Amount > upper.v
       /\ transactions[i].Type = "debit"

\* DropDuplicates with keep='first', the default of drop_duplicates
DropDuplicates_keep_first(rows) ==
    SelectSeq(rows, LAMBDA i :
        \A k \in 1..Len(rows) :
            transactions[rows[k]].Description = transactions[i].Description
                => rows[k] >= i)

\* drop_duplicates(subset="Description", keep=False): every row whose
\* description another row of `rows` shares is dropped
DropDuplicates(rows) ==
    SelectSeq(rows, LAMBDA i :
        \A k \in 1..Len(rows) :
            transactions[rows[k]].Description = transactions[i].Description
                => rows[k] = i)

RECURSIVE Unique(_)
\* Series.unique(): the distinct values in the order they first appear
Unique(s) ==
    IF s = <<>> THEN <<>>
    ELSE LET init == Unique(SubSeq(s, 1, Len(s) - 1))
         IN  IF s[Len(s)] \in Range(init) THEN init
             ELSE Append(init, s[Len(s)])

\* list(self.transactions["Account Name"].unique())
Accounts == Unique([i \in AllLabels |-> transactions[i].Account])

\* AccountView without the account filter
AccountView_any_account(x, start_date, end_date) ==
    SelectSeq(Labels, LAMBDA i : date_filter(start_date, end_date, i))

\* self.transactions[account_filter & date_filter]
AccountView(x, start_date, end_date) ==
    SelectSeq(Labels, LAMBDA i :
        transactions[i].Account = x /\ date_filter(start_date, end_date, i))

\* Printed with the test of `suspicious_charges.empty` turned round
Printed_empty_test_inverted(suspicious) ==
    [found |-> suspicious = <<>>,
     rows |-> IF suspicious # <<>> THEN <<>> ELSE DropDuplicates(suspicious)]

\* what is printed of the rows outside the fences: nothing but the sentence
\* that none was found when there is none
Printed(suspicious) ==
    [found |-> suspicious # <<>>,
     rows |-> IF suspicious = <<>> THEN <<>> ELSE DropDuplicates(suspicious)]

\* the scan of one account: the fences of its frame, the rows outside them
\* and what is printed of them
Scan(x, start_date, end_date) ==
    LET ad_filter == AccountView(x, start_date, end_date)
        q1 == Quantile4(ad_filter, 1)
        q3 == Quantile4(ad_filter, 3)
        lower == LowerFence(q1, q3)
        upper == UpperFence(q1, q3)
        suspicious == SelectSeq(ad_filter,
                                LAMBDA i : IsSuspicious(i, lower, upper))
    IN  [account |-> x, rows |-> ad_filter, q1 |-> q1, q3 |-> q3,
         lower |-> lower, upper |-> upper, suspicious_charges |-> suspicious,
         found |-> Printed(suspicious).found,
         printed |-> Printed(suspicious).rows]

\* the accounts a call scans: every account of the store, one after the
\* other, when account is None; the given one otherwise
ScannedAccounts(account) ==
    IF account = AccountNone THEN Accounts ELSE <<account.s>>

suspicious_charges(start_arg, end_arg, account) ==
    LET start_date == OrEarliest(Bind(start_arg, Zero))
        end_date == OrLatest(Bind(end_arg, Zero))
        scanned == ScannedAccounts(account)
        reports == [k \in 1..Len(scanned) |->
                        Scan(scanned[k], start_date, end_date)]
    IN  /\ pc = "idle"
        /\ call' = MkCall("suspicious_charges", start_arg, end_arg, account,
                          0, <<>>)
        /\ pc' = "returned"
        /\ frames' = [k \in 1..Len(reports) |-> reports[k].rows]
        /\ out' = reports
        /\ UNCHANGED <<transactions, earliest, latest, sorted>>

(***************************************************************************)
(* financial_advice.                                                       *)
(***************************************************************************)
\* int() of a float number of dollars: the cents are cut, towards zero
IntOfDollars(cents) ==
    IF cents >= 0 THEN cents \div 100 ELSE -((-cents) \div 100)

\* apply_dates[Transaction Type == type].groupby("Transaction Type")
\* ["Amount"].sum(): a Series of one sum, or of none when no row has the type
SumsByType(rows, type) ==
    LET of_type == SelectSeq(rows, LAMBDA i : transactions[i].Type = type)
    IN  IF of_type = <<>> THEN <<>> ELSE <<SumSeq(AmountsOf(of_type))>>

\* int(Series) raises TypeError unless the Series holds exactly one value
IntRaises(series) == Len(series) # 1

Verdict(net_total) ==
    IF net_total < 0 THEN "NEGATIVE"
    ELSE IF net_total = 0 THEN "ZERO" ELSE "POSITIVE"

financial_advice(start_arg, end_arg) ==
    LET start_date == OrEarliest(Bind(start_arg, None))
        end_date == OrLatest(Bind(end_arg, None))
        apply_dates == DateView(start_date, end_date)
        debits == SumsByType(apply_dates, "debit")
        credits == SumsByType(apply_dates, "credit")
        net_total == IntOfDollars(credits[1]) - IntOfDollars(debits[1])
    IN  /\ pc = "idle"
        /\ call' = MkCall("financial_advice", start_arg, end_arg,
                          AccountNone, 0, <<>>)
        /\ IF DateFilterRaises(start_date, end_date)
           THEN \* whether the comparison raises or yields an empty frame,
                \* of which int(credits) raises, the call ends in TypeError
                pc' = "raised:TypeError" /\ frames' = <<>> /\ out' = <<>>
           ELSE IF IntRaises(credits) \/ IntRaises(debits)
           THEN /\ pc' = "raised:TypeError"
                /\ frames' = <<apply_dates>>
                /\ out' = <<>>
           ELSE /\ pc' = "returned"
                /\ frames' = <<apply_dates>>
                /\ out' = <<[income |-> IntOfDollars(credits[1]),
                             net_total |-> net_total,
                             verdict |-> Verdict(net_total)]>>
        /\ UNCHANGED <<transactions, earliest, latest, sorted>>

(***************************************************************************)
(* Sorting by a column.                                                    *)
(***************************************************************************)
RECURSIVE Orderings(_, _)
\* sort_values(ascending=False) with the default kind, quicksort, which is
\* not stable: every arrangement of the indices S with the keys descending;
\* which of the arrangements of equal keys comes out depends on the numpy
\* build
Orderings(S, key) ==
    IF S = {} THEN {<<>>}
    ELSE UNION { {<<x>> \o o : o \in Orderings(S \ {x}, key)} :
                 x \in {y \in S : \A z \in S : key[y] >= key[z]} }

\* the arrangements the sort of a column may come out in: numpy computes a
\* function, so the arrangement it gave the same values of the same column
\* before is the one it gives them again
NumpySort(column, keys) ==
    IF sorted.column = column /\ sorted.keys = keys THEN {sorted.order}
    ELSE Orderings(DOMAIN keys, keys)

\* the names a group-by or a crosstab sorts its keys by, in string order
CategoryNames ==
    <<"Auto", "Coffee", "Gas", "Groceries", "Income", "Music", "Shopping">>

\* the categories of `rows`, in string order (the index of a group-by)
CategoryIndex(rows) ==
    SelectSeq(CategoryNames, LAMBDA c :
        \E k \in 1..Len(rows) : transactions[rows[k]].Category = c)

RowsOfCategory(rows, c) ==
    SelectSeq(rows, LAMBDA i : transactions[i].Category = c)

\* DataFrame.head(n): the first n rows, all but the last -n for n < 0
HeadRows(s, n) ==
    IF n >= 0 THEN HeadN(s, n)
    ELSE IF Len(s) + n > 0 THEN HeadN(s, Len(s) + n) ELSE <<>>

(***************************************************************************)
(* spending_category_frequency.                                            *)
(***************************************************************************)
\* pd.crosstab(index = df['Category'], columns = 'count')
Crosstab(rows) ==
    LET index == CategoryIndex(rows)
    IN  [k \in 1..Len(index) |->
            [Category |-> index[k],
             count |-> Len(RowsOfCategory(rows, index[k]))]]

\* the rows of the printed table: .sort_values(['count'],
\* ascending = False).head(5)
FrequencyTable(table, order) ==
    HeadRows([k \in 1..Len(order) |-> table[order[k]]], 5)

\* the body of the method: the frame, the table and its printing
category_frequency(start_arg, end_arg) ==
    LET start_date == OrEarliest(Bind(start_arg, Zero))
        end_date == OrLatest(Bind(end_arg, Zero))
        df == DateView(start_date, end_date)
        table == Crosstab(df)
        keys == [k \in DOMAIN table |-> table[k].count]
    IN  /\ frames' = <<df>>
        /\ \E order \in NumpySort("count", keys) :
              /\ out' = FrequencyTable(table, order)
              /\ sorted' = [column |-> "count", keys |-> keys,
                            order |-> order]
        /\ UNCHANGED <<transactions, earliest, latest>>

spending_category_frequency(start_arg, end_arg) ==
    /\ pc = "idle"
    /\ call' = MkCall("spending_category_frequency", start_arg, end_arg,
                      AccountNone, 0, <<>>)
    /\ pc' = "returned"
    /\ category_frequency(start_arg, end_arg)

(***************************************************************************)
(* top_categories.                                                         *)
(***************************************************************************)
\* df[['Category', 'Amount']].groupby('Category', as_index = False).sum()
CategorySums(rows) ==
    LET index == CategoryIndex(rows)
    IN  [k \in 1..Len(index) |->
            [Category |-> index[k],
             Amount |-> SumSeq(AmountsOf(RowsOfCategory(rows, index[k])))]]

\* .sort_values('Amount', ascending=False).head(amt)
TopTable(table, order, amt) ==
    HeadRows([k \in 1..Len(order) |-> table[order[k]]], amt)

\* amt left out is 5
df_cat(amt, start_arg, end_arg) ==
    LET start_date == OrEarliest(Bind(start_arg, Zero))
        end_date == OrLatest(Bind(end_arg, Zero))
        df == DateView(start_date, end_date)
        table == CategorySums(df)
        keys == [k \in DOMAIN table |-> table[k].Amount]
    IN  /\ frames' = <<df>>
        /\ \E order \in NumpySort("Amount", keys) :
              /\ out' = TopTable(table, order, amt)
              /\ sorted' = [column |-> "Amount", keys |-> keys,
                            order |-> order]
        /\ UNCHANGED <<transactions, earliest, latest>>

top_categories(amt, start_arg, end_arg) ==
    /\ pc = "idle"
    /\ call' = MkCall("top_categories", start_arg, end_arg, AccountNone, amt,
                      <<>>)
    /\ pc' = "returned"
    /\ df_cat(amt, start_arg, end_arg)

(***************************************************************************)
(* The same call once more.                                                *)
(***************************************************************************)
\* the caller of spending_category_frequency calls it again with the same
\* arguments (as the fixture test_spending_category_frequency does)
spending_category_frequency_again ==
    /\ pc = "returned"
    /\ call.op = "spending_category_frequency"
    /\ call' = call
    /\ pc' = "returned again"
    /\ category_frequency(call.start_date, call.end_date)

\* and the caller of top_categories
top_categories_again ==
    /\ pc = "returned"
    /\ call.op = "top_categories"
    /\ call' = call
    /\ pc' = "returned again"
    /\ df_cat(call.amt, call.start_date, call.end_date)

(***************************************************************************)
(* mint_plot.                                                              *)
(***************************************************************************)
\* the group key df['Date'].dt.strftime('%B %Y'): the month and its year
MonthKey(date) == <<date[1], date[2]>>

\* the months of `rows`
MonthIndex(rows) ==
    Unique([k \in 1..Len(rows) |-> MonthKey(transactions[rows[k]].Date)])

\* df.groupby(df['Date'].dt.strftime('%B %Y'))['Amount'].sum()
MonthSums(rows) ==
    LET index == MonthIndex(rows)
    IN  [k \in 1..Len(index) |->
            [Month |-> index[k],
             Amount |-> SumSeq(AmountsOf(SelectSeq(rows, LAMBDA i :
                            MonthKey(transactions[i].Date) = index[k])))]]

\* .sort_values(): ascending, the ties in the order the build leaves them;
\* the bar plot of no month at all raises or draws an empty chart, depending
\* on the pandas build
mint_plot(start_arg, end_arg) ==
    LET start_date == OrEarliest(Bind(start_arg, Zero))
        end_date == OrLatest(Bind(end_arg, Zero))
        df == DateView(start_date, end_date)
        table == MonthSums(df)
    IN  /\ pc = "idle"
        /\ call' = MkCall("mint_plot", start_arg, end_arg, AccountNone, 0,
                          <<>>)
        /\ frames' = <<df>>
        /\ \E order \in NumpySort("-Amount",
                                  [k \in DOMAIN table |-> -table[k].Amount]) :
              /\ out' = [k \in 1..Len(order) |-> table[order[k]]]
              /\ sorted' = [column |-> "-Amount",
                            keys |-> [k \in DOMAIN table |-> -table[k].Amount],
                            order |-> order]
        /\ IF df = <<>> THEN pc' \in {"returned", "raised:Error"}
           ELSE pc' = "returned"
        /\ UNCHANGED <<transactions, earliest, latest>>

(***************************************************************************)
(* search_transactions.                                                    *)
(***************************************************************************)
\* str.lower(), a character at a time
LowerChar(ch) ==
    CASE ch = "A" -> "a"
      [] ch = "B" -> "b"
      [] OTHER -> ch

Lower(str) == [k \in 1..Len(str) |-> LowerChar(str[k])]

\* str.contains(pat): pat is a regular expression (regex=True is the
\* default) searched for anywhere in str; of the patterns, those made of
\* letters, which stand for themselves, and of ".", which stands for any one
\* character
Contains(str, pat) ==
    \E k \in 0..(Len(str) - Len(pat)) :
        \A j \in 1..Len(pat) : pat[j] = "." \/ str[k + j] = pat[j]

\* df[lower_df.str.contains(desc.lower())]
SearchRows(df, desc) ==
    SelectSeq(df, LAMBDA i :
        Contains(Lower(transactions[i].Description), Lower(desc)))

\* returns a sentence when nothing matches and the matching frame otherwise
search_transactions(desc, start_arg, end_arg) ==
    LET start_date == OrEarliest(Bind(start_arg, Zero))
        end_date == OrLatest(Bind(end_arg, Zero))
        df == DateView(start_date, end_date)
        search == SearchRows(df, desc)
    IN  /\ pc = "idle"
        /\ call' = MkCall("search_transactions", start_arg, end_arg,
                          AccountNone, 0, desc)
        /\ pc' = "returned"
        /\ frames' = <<df>>
        /\ out' = IF search = <<>>
                  THEN <<[kind |-> "str", rows |-> <<>>]>>
                  ELSE <<[kind |-> "DataFrame", rows |-> search]>>
        /\ UNCHANGED <<transactions, earliest, latest, sorted>>

(***************************************************************************)
(* Weekdays and weeks.                                                     *)
(***************************************************************************)
\* the days from 1970-01-01 to `date` in the Gregorian calendar
EpochDay(date) ==
    LET y == IF date[2] <= 2 THEN date[1] - 1 ELSE date[1]
        era == y \div 400
        yoe == y - era * 400
        mp == IF date[2] > 2 THEN date[2] - 3 ELSE date[2] + 9
        doy == (153 * mp + 2) \div 5 + date[3] - 1
        doe == yoe * 365 + yoe \div 4 - yoe \div 100 + doy
    IN  era * 146097 + doe - 719468

\* isocalendar()[2] - 1: 0 for a Monday to 6 for a Sunday
Weekday(date) == (EpochDay(date) + 3) % 7

days_list ==
    <<"Monday", "Tuesday", "Wednesday", "Thursday", "Friday", "Saturday",
      "Sunday">>

\* strftime("%A")
DayName(date) == days_list[Weekday(date) + 1]

\* round(x, 2) of the float nearest num/den hundredths: the nearest whole
\* hundredth; when num/den lies half way between two, the float lies a little
\* to one side or exactly between them, and `up` says where the result falls
Round2(num, den, up) ==
    LET q == num \div den
        r == num % den
    IN  IF 2 * r < den THEN q
        ELSE IF 2 * r > den THEN q + 1
        ELSE IF up THEN q + 1 ELSE q

IsTie(num, den) == 2 * (num % den) = den

(***************************************************************************)
(* day_of_week_summary.                                                    *)
(***************************************************************************)
\* the weekday names of the rows of df, in the order of df
dow_list(df) == [k \in 1..Len(df) |-> DayName(transactions[df[k]].Date)]

\* df["Day of Week"] = pd.Series(dow_list): the Series is numbered from the
\* first row of df on, the rows of df keep their labels of the store, and the
\* assignment goes by label: row i gets the name at place i of the list, and
\* NaN when the list is shorter
DayOfWeekColumn(df, i) ==
    IF i <= Len(df) THEN dow_list(df)[i] ELSE "nan"

\* df[df["Day of Week"] == day]
RowsOfDay(df, day) == SelectSeq(df, LAMBDA i : DayOfWeekColumn(df, i) = day)

\* the keys of .groupby("Date")
DatesOf(rows) == Unique([k \in 1..Len(rows) |-> transactions[rows[k]].Date])

RowsOfDate(rows, date) ==
    SelectSeq(rows, LAMBDA i : transactions[i].Date = date)

\* .groupby("Date")["Date"].count()
DateCounts(rows) ==
    [k \in 1..Len(DatesOf(rows)) |-> Len(RowsOfDate(rows, DatesOf(rows)[k]))]

\* .groupby("Date")["Amount"].sum()
DateSums(rows) ==
    [k \in 1..Len(DatesOf(rows)) |->
        SumSeq(AmountsOf(RowsOfDate(rows, DatesOf(rows)[k])))]

\* the statistics that can fall either way when rounded
Ties(df) ==
    {<<day, "avg">> : day \in {d \in Range(days_list) :
        /\ RowsOfDay(df, d) # <<>>
        /\ IsTie(100 * SumSeq(DateCounts(RowsOfDay(df, d))),
                 Len(DateCounts(RowsOfDay(df, d))))}}
    \cup
    {<<day, "mean">> : day \in {d \in Range(days_list) :
        /\ RowsOfDay(df, d) # <<>>
        /\ IsTie(SumSeq(DateSums(RowsOfDay(df, d))),
                 Len(DateSums(RowsOfDay(df, d))))}}
    \cup
    {<<day, "median">> : day \in {d \in Range(days_list) :
        LET s == SortSeq(DateSums(RowsOfDay(df, d)), LAMBDA x, y : x < y)
            n == Len(s)
        IN  n > 0 /\ n % 2 = 0 /\ IsTie(s[n \div 2] + s[n \div 2 + 1], 2)}}

\* one row of summary_df: the five rounded statistics of a weekday, in
\* hundredths (of a transaction, of a dollar); NaN when no row has the day
DayStats(df, day, ups) ==
    LET rows == RowsOfDay(df, day)
        counts == DateCounts(rows)
        sums == DateSums(rows)
        s == SortSeq(sums, LAMBDA x, y : x < y)
        n == Len(sums)
    IN  IF n = 0
        THEN [day |-> day, avg_transactions |-> NaN, mean |-> NaN,
              median |-> NaN, min |-> NaN, max |-> NaN]
        ELSE [day |-> day,
              avg_transactions |->
                  Num(Round2(100 * SumSeq(counts), n, <<day, "avg">> \in ups)),
              mean |-> Num(Round2(SumSeq(sums), n, <<day, "mean">> \in ups)),
              median |->
                  IF n % 2 = 1 THEN Num(s[(n + 1) \div 2])
                  ELSE Num(Round2(s[n \div 2] + s[n \div 2 + 1], 2,
                                  <<day, "median">> \in ups)),
              min |-> Num(s[1]),
              max |-> Num(s[n])]

\* day_of_week_summary keeping its frame as the store
\* (self.transactions = self.transactions[date_filter])
day_of_week_summary_in_place(start_arg, end_arg) ==
    LET start_date == OrEarliest(Bind(start_arg, Zero))
        end_date == OrLatest(Bind(end_arg, Zero))
        df == DateView(start_date, end_date)
    IN  /\ pc = "idle"
        /\ call' = MkCall("day_of_week_summary", start_arg, end_arg,
                          AccountNone, 0, <<>>)
        /\ pc' = "returned"
        /\ frames' = <<df>>
        /\ out' = <<[kind |-> "NoneType",
                     printed |-> [k \in 1..Len(days_list) |->
                                     DayStats(df, days_list[k], {})]]>>
        /\ transactions' = IF df = <<>> THEN transactions
                           ELSE [k \in 1..Len(df) |-> transactions[df[k]]]
        /\ UNCHANGED <<earliest, latest, sorted>>

\* prints summary_df and returns nothing
day_of_week_summary(start_arg, end_arg) ==
    LET start_date == OrEarliest(Bind(start_arg, Zero))
        end_date == OrLatest(Bind(end_arg, Zero))
        df == DateView(start_date, end_date)
    IN  /\ pc = "idle"
        /\ call' = MkCall("day_of_week_summary", start_arg, end_arg,
                          AccountNone, 0, <<>>)
        /\ pc' = "returned"
        /\ frames' = <<df>>
        /\ \E ups \in SUBSET Ties(df) :
              out' = <<[kind |-> "NoneType",
                        printed |-> [k \in 1..Len(days_list) |->
                                        DayStats(df, days_list[k], ups)]]>>
        /\ UNCHANGED <<transactions, earliest, latest, sorted>>

(***************************************************************************)
(* compare_spendings.                                                      *)
(***************************************************************************)
\* the Monday of the week of `date`, as the number of its day
WeekStart(date) == EpochDay(date) - Weekday(date)

\* df["Week"] = pd.Series(week_list), where week_list has the Monday of
\* each row of df in the order of df: by label, as df["Day of Week"] is, so
\* that row i gets the Monday of the i-th row of df
WeekColumn(df) ==
    [i \in Range(df) |->
        IF i <= Len(df) THEN Num(WeekStart(transactions[df[i]].Date))
        ELSE NaN]

\* strftime("%Y-%m"), as the number YYYYMM, which sorts as the string does
MonthColumn(df) ==
    [i \in Range(df) |->
        Num(transactions[i].Date[1] * 100 + transactions[i].Date[2])]

\* strftime("%Y")
YearColumn(df) == [i \in Range(df) |-> Num(transactions[i].Date[1])]

\* Series.pct_change() of one period: (cur - prev) / prev in floats, which
\* is an infinity over 0 and NaN for 0 / 0
PctChange(cur, prev) ==
    IF prev # 0 THEN [kind |-> "num", num |-> cur - prev, den |-> prev]
    ELSE IF cur > 0 THEN [kind |-> "inf", num |-> 0, den |-> 0]
    ELSE IF cur < 0 THEN [kind |-> "-inf", num |-> 0, den |-> 0]
    ELSE [kind |-> "nan", num |-> 0, den |-> 0]

NoChange == [kind |-> "nan", num |-> 0, den |-> 0]

\* df.groupby(column)["Amount"].sum().to_frame() with its "Change" column:
\* one row per key, the keys ascending, the rows whose key is NaN left out
PeriodTable(df, column) ==
    LET keyed == SelectSeq(df, LAMBDA i : ~column[i].nan)
        index == SortSeq(Unique([k \in 1..Len(keyed) |-> column[keyed[k]].v]),
                         LAMBDA x, y : x < y)
        Amount == [k \in 1..Len(index) |->
                      SumSeq(AmountsOf(SelectSeq(df, LAMBDA i :
                          column[i] = Num(index[k]))))]
    IN  [k \in 1..Len(index) |->
            [key |-> index[k], Amount |-> Amount[k],
             Change |-> IF k = 1 THEN NoChange
                        ELSE PctChange(Amount[k], Amount[k - 1])]]

\* the branch of the loop a change takes: > 0, < 0, or neither
Branch(change) ==
    CASE change.kind = "nan" -> "same"
      [] change.kind = "inf" -> "higher"
      [] change.kind = "-inf" -> "lower"
      [] OTHER -> IF change.num * change.den > 0 THEN "higher"
                  ELSE IF change.num * change.den < 0 THEN "lower"
                  ELSE "same"

\* the loop over reversed(itl.index) raises IndexError at itl.index[-2] when
\* there is one period only
LoopRaises(itl) == Len(itl) = 1

\* the sentences the loop prints of a table of two periods or more: from the
\* last period back, each against itl.index[-i-1], until i is 5 or size - 1
\* (an integer key of itl['Amount'] is taken as a position)
Sentences(itl) ==
    LET size == Len(itl)
        last == IF size - 1 < 5 THEN size - 1 ELSE 5
    IN  [i \in 1..last |->
            [period |-> itl[size + 1 - i].key,
             prior |-> itl[size - i].key,
             branch |-> Branch(itl[size + 1 - i].Change),
             Change |-> itl[size + 1 - i].Change,
             from |-> itl[size - i].Amount,
             to |-> itl[size + 1 - i].Amount]]

\* the three tables, weeks then months then years; the sentences of each
\* until one of them raises; returns " "
compare_spendings(start_arg, end_arg) ==
    LET start_date == OrEarliest(Bind(start_arg, Zero))
        end_date == OrLatest(Bind(end_arg, Zero))
        df == DateView(start_date, end_date)
        names == <<"week", "month", "year">>
    IN  /\ pc = "idle"
        /\ call' = MkCall("compare_spendings", start_arg, end_arg,
                          AccountNone, 0, <<>>)
        /\ frames' = <<df>>
        /\ \E tables \in { <<PeriodTable(df, WeekColumn(df)),
                              PeriodTable(df, MonthColumn(df)),
                              PeriodTable(df, YearColumn(df))>> } :
              LET raising == {t \in 1..3 : LoopRaises(tables[t])}
                  reached(t) == \A u \in raising : t <= u
              IN  /\ pc' = IF raising = {} THEN "returned"
                           ELSE "raised:IndexError"
                  /\ out' = [t \in 1..3 |->
                                [itl |-> names[t],
                                 table |-> tables[t],
                                 header |-> reached(t),
                                 sentences |->
                                     IF reached(t) /\ t \notin raising
                                     THEN Sentences(tables[t]) ELSE <<>>]]
        /\ UNCHANGED <<transactions, earliest, latest, sorted>>

(***************************************************************************)
(* The date filter: stores of a few rows on neighbouring days, every       *)
(* method called over every range of those days.                           *)
(***************************************************************************)
\* a purchase and a pay cheque, on any of the days
FilterRows ==
    {Row(d, <<"A", "b">>, 1250, "debit", "Shopping", "Discover") : d \in Days}
    \cup
    {Row(d, <<"B", "a">>, 1250, "credit", "Income", "Checking") : d \in Days}

\* ranges of one day, of two and of three, ranges with an end left out, and
\* a range that ends before it starts
FilterRanges ==
    { <<Omitted, Omitted>>,
      <<MdyStr(Calendar[2]), Omitted>>,
      <<Omitted, MdyStr(Calendar[2])>>,
      <<MdyStr(Calendar[2]), MdyStr(Calendar[2])>>,
      <<MdyStr(Calendar[1]), MdyStr(Calendar[2])>>,
      <<MdyStr(Calendar[2]), MdyStr(Calendar[3])>>,
      <<MdyStr(Calendar[1]), MdyStr(Calendar[3])>>,
      <<MdyStr(Calendar[3]), MdyStr(Calendar[1])>> }

InitFilter == \E rows \in SeqsUpTo(FilterRows, MaxRows) : Construct(rows)

NextFilter ==
    \/ Return
    \/ spending_category_frequency_again
    \/ top_categories_again
    \/ \E range \in FilterRanges :
          \/ suspicious_charges(range[1], range[2], AccountNone)
          \/ suspicious_charges(range[1], range[2], AccountStr("Discover"))
          \/ financial_advice(range[1], range[2])
          \/ spending_category_frequency(range[1], range[2])
          \/ mint_plot(range[1], range[2])
          \/ top_categories(DefaultAmt, range[1], range[2])
          \/ search_transactions(<<"a">>, range[1], range[2])
          \/ day_of_week_summary(range[1], range[2])
          \/ compare_spendings(range[1], range[2])

SpecFilter == InitFilter /\ [][NextFilter]_vars

(***************************************************************************)
(* What the claims say of a finished call, in the claims' own terms.       *)
(***************************************************************************)
\* a calendar date as a number that grows with the calendar
DayNumber(date) == date[1] * 372 + date[2] * 31 + date[3]

\* the day an "MM-DD-YYYY" argument names
DayOfArg(arg) == arg.c * 372 + arg.a * 31 + arg.b

StoreDays == {DayNumber(transactions[i].Date) : i \in AllLabels}

EarliestDay == CHOOSE d \in StoreDays : \A x \in StoreDays : d <= x

LatestDay == CHOOSE d \in StoreDays : \A x \in StoreDays : x <= d

\* the range a call asks for, a bound left out (or given as 0) standing for
\* the first or last day of the store
StartDay == IF call.start_date.t = "str-mdy" THEN DayOfArg(call.start_date)
            ELSE EarliestDay

EndDay == IF call.end_date.t = "str-mdy" THEN DayOfArg(call.end_date)
          ELSE LatestDay

InRange(i) ==
    /\ StartDay <= DayNumber(transactions[i].Date)
    /\ DayNumber(transactions[i].Date) <= EndDay

InAccount(i) ==
    call.account = AccountNone \/ transactions[i].Account = call.account.s

\* the rows of the frames a call filtered out of the store
Framed == UNION {Range(frames[k]) : k \in DOMAIN frames}

\* every frame lists its rows once, in the order of the store, and no row is
\* in two frames
FramesInOrder ==
    /\ \A k \in DOMAIN frames : \A x, y \in DOMAIN frames[k] :
            x < y => frames[k][x] < frames[k][y]
    /\ \A k, l \in DOMAIN frames :
            k # l => Range(frames[k]) \cap Range(frames[l]) = {}

BothGiven == call.start_date.t = "str-mdy" /\ call.end_date.t = "str-mdy"

\* C1: whatever the method, the frame it filters for a given range
\* [start_date, end_date] holds exactly the rows of the store (of the account
\* asked for, if any) whose day d has start_date <= d <= end_date, both ends
\* included, each once and in the order of the store.
C1_FilterInclusive ==
    (pc # "idle" /\ BothGiven) =>
        /\ frames # <<>>
        /\ Framed = {i \in AllLabels : InRange(i) /\ InAccount(i)}
        /\ FramesInOrder

\* C1 witness: a store with a row on each of three neighbouring days, filtered
\* for the middle day alone: the frame is the middle row and nothing else.
C1_Witness ==
    /\ pc = "returned"
    /\ call.start_date = MdyStr(Calendar[2])
    /\ call.end_date = MdyStr(Calendar[2])
    /\ Len(transactions) = 3
    /\ \A i \in 1..3 : transactions[i].Date = Calendar[i]
    /\ frames = << <<2>> >>

SomeOmitted == call.start_date = Omitted \/ call.end_date = Omitted

\* C2: a call that leaves start_date and/or end_date out does what the call
\* with the store's earliest/latest date in its place does: it filters the
\* rows from the earliest (to the latest) day of the store, and it does not
\* fail where that call succeeds. financial_advice does not: its defaults are
\* None, which `== 0` does not catch, and the date filter fails on None.
C2_OmittedMeansWholeRange ==
    (pc # "idle" /\ SomeOmitted) =>
        /\ frames # <<>>
        /\ Framed = {i \in AllLabels : InRange(i) /\ InAccount(i)}
        /\ FramesInOrder

\* C2 holds of every method but financial_advice
C2_ExceptFinancialAdvice ==
    call.op # "financial_advice" => C2_OmittedMeansWholeRange

(***************************************************************************)
(* Suspicious charges: a statement of three ordinary purchases and a few   *)
(* more rows, ordinary or far out, scanned per account and over all.       *)
(***************************************************************************)
SuspStatement ==
    << Row(Calendar[1], <<"a">>, 1100, "debit", "Groceries", "Discover"),
       Row(Calendar[2], <<"b">>, 1100, "debit", "Groceries", "Discover"),
       Row(Calendar[2], <<"a">>, 1100, "debit", "Groceries", "Discover") >>

SuspRows ==
    {Row(Calendar[2], d, a, t, "Shopping", x) :
        d \in {<<"A">>, <<"B">>}, a \in {100, 1100, 9900},
        t \in {"debit", "credit"}, x \in {"Discover", "Checking"}}

\* the whole store, its second day alone, and a month after its last row
SuspRanges ==
    { <<Omitted, Omitted>>,
      <<MdyStr(Calendar[2]), MdyStr(Calendar[2])>>,
      <<MdyStr(<<2020, 2, 1>>), Omitted>> }

\* "Savings" is the account of no row
SuspAccountArgs ==
    {AccountNone, AccountStr("Discover"), AccountStr("Checking"),
     AccountStr("Savings")}

InitSusp ==
    \E extra \in SeqsUpTo(SuspRows, MaxExtra) :
        Construct(SuspStatement \o extra)

NextSusp ==
    \/ Return
    \/ \E range \in SuspRanges, account \in SuspAccountArgs :
          suspicious_charges(range[1], range[2], account)

SpecSusp == InitSusp /\ [][NextSusp]_vars

\* how many of the amounts of `rows` Test holds of
CountAmounts(rows, Test(_)) ==
    Cardinality({k \in DOMAIN rows : Test(transactions[rows[k]].Amount)})

\* the k-th smallest amount of `rows`: fewer than k amounts are below it and
\* at least k are not above it
OrderStatistic(rows, k) ==
    CHOOSE v \in {transactions[i].Amount : i \in Range(rows)} :
        /\ CountAmounts(rows, LAMBDA a : a < v) < k
        /\ CountAmounts(rows, LAMBDA a : a <= v) >= k

\* four times the q4-th quartile of the amounts of `rows` (rows not empty):
\* rank q*(n-1) among the order statistics, interpolated linearly
Quartile4(rows, q4) ==
    LET p == q4 * (Len(rows) - 1)
        below == OrderStatistic(rows, (p \div 4) + 1)
        frac4 == p % 4
    IN  IF frac4 = 0 THEN 4 * below
        ELSE (4 - frac4) * below
                + frac4 * OrderStatistic(rows, (p \div 4) + 2)

\* four times the outer fences Q1 - 3*IQR and Q3 + 3*IQR
Lower4(rows) ==
    Quartile4(rows, 1) - 3 * (Quartile4(rows, 3) - Quartile4(rows, 1))

Upper4(rows) ==
    Quartile4(rows, 3) + 3 * (Quartile4(rows, 3) - Quartile4(rows, 1))

\* the rows of `rows` the rule flags, given the fences of `rows`
Flagged(rows) ==
    {i \in Range(rows) :
        \/ 4 * transactions[i].Amount < Lower4(rows)
        \/ /\ 4 * transactions[i].Amount > Upper4(rows)
           /\ transactions[i].Type = "debit"}

Scanned == pc = "returned" /\ call.op = "suspicious_charges"

UniquelyDescribed(flagged) ==
    {i \in flagged :
        Cardinality({j \in flagged : transactions[j].Description
                                        = transactions[i].Description}) = 1}

\* C4: the rows suspicious_charges reports of a frame are exactly the flagged
\* rows whose description occurs once among the flagged rows; of flagged
\* rows that share a description none is reported.
C4_SharedDescriptionsDropped ==
    Scanned =>
        \A k \in DOMAIN out :
            /\ Range(out[k].printed)
                  = UniquelyDescribed(Range(out[k].suspicious_charges))
            /\ \A x, y \in DOMAIN out[k].printed :
                  x < y => out[k].printed[x] < out[k].printed[y]

\* C4 witness: two flagged rows of one description: charges were found and
\* neither of the two is reported.
C4_Witness ==
    /\ Scanned
    /\ \E k \in DOMAIN out : \E i, j \in Range(out[k].suspicious_charges) :
          /\ i # j
          /\ transactions[i].Description = transactions[j].Description
          /\ out[k].found
          /\ out[k].printed = <<>>

\* the rows of the store in the range of the call, whatever their account
RowsInRange == SelectSeq(Labels, LAMBDA i : InRange(i))

AllFlagged == UNION {Range(out[k].suspicious_charges) : k \in DOMAIN out}

\* C5 as first stated: with no account given, the quartiles and fences are
\* computed once over all the rows in the date range, whatever their account,
\* and the flagged rows are those outside these fences.
C5_FencesOverAllAccounts ==
    (Scanned /\ call.account = AccountNone /\ RowsInRange # <<>>) =>
        AllFlagged = Flagged(RowsInRange)

\* the row an account first appears on
FirstRowOf(x) ==
    CHOOSE i \in AllLabels :
        /\ transactions[i].Account = x
        /\ \A j \in 1..(i - 1) : transactions[j].Account # x

\* C5 as amended: with no account given, suspicious_charges scans every
\* account of the store, one after the other in the order the accounts first
\* appear; the quartiles and fences of an account are computed over the rows
\* of that account in the date range alone, and the rows flagged for the
\* account are those of its rows outside its own fences.
C5_FencesPerAccount ==
    (Scanned /\ call.account = AccountNone) =>
        /\ {out[k].account : k \in DOMAIN out}
              = {transactions[i].Account : i \in AllLabels}
        /\ \A k, l \in DOMAIN out :
              k < l => FirstRowOf(out[k].account) < FirstRowOf(out[l].account)
        /\ \A k \in DOMAIN out :
              /\ Range(out[k].rows)
                    = {i \in AllLabels : /\ InRange(i)
                                         /\ transactions[i].Account
                                               = out[k].account}
              /\ Range(out[k].suspicious_charges)
                    = IF out[k].rows = <<>> THEN {} ELSE Flagged(out[k].rows)

\* C5 witness: two accounts scanned, and a row outside the fences of all the
\* rows in range that is inside the fences of its own account.
C5_Witness ==
    /\ Scanned
    /\ call.account = AccountNone
    /\ Len(out) = 2
    /\ \E i \in Flagged(RowsInRange) : i \notin AllFlagged

\* C6: when no row of the store is in the date range and of the account
\* asked for (an account of no row included), suspicious_charges ends
\* without an error and reports no charge: every scan says that none was found.
C6_NoMatchNoCharge ==
    (pc # "idle" /\ call.op = "suspicious_charges"
        /\ {i \in AllLabels : InRange(i) /\ InAccount(i)} = {}) =>
        /\ pc = "returned"
        /\ \A k \in DOMAIN out :
              /\ out[k].rows = <<>>
              /\ out[k].suspicious_charges = <<>>
              /\ ~out[k].found
              /\ out[k].printed = <<>>

\* C6 witness: a scan of an account no row has, over the whole store, and a
\* scan of every account over a range after the last row.
C6_Witness ==
    /\ Scanned
    /\ \/ /\ call.account = AccountStr("Savings")
          /\ call.start_date = Omitted
          /\ Len(out) = 1 /\ out[1].rows = <<>> /\ ~out[1].found
       \/ /\ call.account = AccountNone
          /\ call.start_date = MdyStr(<<2020, 2, 1>>)
          /\ Len(out) = 2
          /\ \A k \in 1..2 : out[k].rows = <<>> /\ ~out[k].found

(***************************************************************************)
(* Income versus spending: stores of a few credits and debits of whole and *)
(* of broken dollar amounts.                                               *)
(***************************************************************************)
AdviceRows ==
    {Row(d, <<"a">>, a, t, "Shopping", "Checking") :
        d \in {Calendar[1], Calendar[2]}, a \in {1000, 1050, 1099},
        t \in {"debit", "credit"}}

\* the ranges as the command line passes them (0 for a date not given), the
\* arguments left out, the first day, from the second day on, and a range
\* that starts a month after the last row
AdviceRanges ==
    { <<Zero, Zero>>,
      <<Omitted, Omitted>>,
      <<MdyStr(Calendar[1]), MdyStr(Calendar[1])>>,
      <<MdyStr(Calendar[2]), Zero>>,
      <<MdyStr(<<2020, 2, 1>>), Zero>> }

InitAdvice == \E rows \in SeqsUpTo(AdviceRows, MaxAdviceRows) : Construct(rows)

NextAdvice ==
    \/ Return
    \/ \E range \in AdviceRanges : financial_advice(range[1], range[2])

SpecAdvice == InitAdvice /\ [][NextAdvice]_vars

\* the cents of the rows of the frame that have the type
CentsOfType(type) ==
    LET of_type == {i \in Framed : transactions[i].Type = type}
        total[S \in SUBSET of_type] ==
            IF S = {} THEN 0
            ELSE LET i == CHOOSE x \in S : TRUE
                 IN  transactions[i].Amount + total[S \ {i}]
    IN  total[of_type]

HasType(type) == \E i \in Framed : transactions[i].Type = type

\* income - expense of the frame, in cents
NetCents == CentsOfType("credit") - CentsOfType("debit")

VerdictOfNet ==
    IF NetCents < 0 THEN "NEGATIVE"
    ELSE IF NetCents = 0 THEN "ZERO" ELSE "POSITIVE"

\* a call of financial_advice that got as far as filtering its frame
Advised == pc # "idle" /\ call.op = "financial_advice" /\ frames # <<>>

\* C7: of a frame with a credit and a debit, financial_advice computes
\* net_total as the sum of the credits minus the sum of the debits, neither
\* sum rounded or cut, and takes the NEGATIVE, ZERO or POSITIVE branch as
\* net_total is below, at or above zero.
C7_NetTotalExact ==
    (Advised /\ HasType("credit") /\ HasType("debit")) =>
        /\ pc = "returned"
        /\ 100 * out[1].net_total = NetCents
        /\ out[1].verdict = VerdictOfNet

\* the part of C7 that whole-dollar sums bear out: the verdict is the sign
\* of int(credits) - int(debits)
C7_VerdictOfWholeDollars ==
    (Advised /\ HasType("credit") /\ HasType("debit")
        /\ CentsOfType("credit") % 100 = 0
        /\ CentsOfType("debit") % 100 = 0) =>
        /\ pc = "returned"
        /\ 100 * out[1].net_total = NetCents
        /\ out[1].verdict = VerdictOfNet

\* C8: of a frame with no credit or with no debit (an empty frame included),
\* financial_advice takes the missing sum as zero, ends without an error and
\* gives its verdict.
C8_MissingSumIsZero ==
    (Advised /\ ~(HasType("credit") /\ HasType("debit"))) =>
        /\ pc = "returned"
        /\ out[1].verdict = VerdictOfNet

(***************************************************************************)
(* Categories: a statement of four purchases of four categories and a few  *)
(* more rows, of these and of two more categories.                         *)
(***************************************************************************)
CatStatement ==
    << Row(Calendar[1], <<"a">>, 500, "debit", "Coffee", "Discover"),
       Row(Calendar[2], <<"a">>, 1000, "debit", "Gas", "Discover"),
       Row(Calendar[2], <<"a">>, 1500, "debit", "Groceries", "Discover"),
       Row(Calendar[2], <<"a">>, 500, "debit", "Music", "Discover") >>

CatRows ==
    {Row(Calendar[2], <<"a">>, a, "debit", c, "Discover") :
        a \in {500, 1000},
        c \in {"Auto", "Coffee", "Gas", "Groceries", "Music", "Shopping"}}

CatRanges ==
    { <<Omitted, Omitted>>, <<MdyStr(Calendar[2]), MdyStr(Calendar[2])>> }

\* --amt is any int: the default, a few categories, none, and fewer than none
AmtArgs == ((-MaxAmt)..MaxAmt) \cup {DefaultAmt}

InitCat ==
    \E extra \in SeqsUpTo(CatRows, MaxCatExtra) :
        Construct(CatStatement \o extra)

NextCat ==
    \/ Return
    \/ \E range \in CatRanges :
          \/ spending_category_frequency(range[1], range[2])
          \/ \E amt \in AmtArgs : top_categories(amt, range[1], range[2])

SpecCat == InitCat /\ [][NextCat]_vars

FramedCategories == {transactions[i].Category : i \in Framed}

\* the place of a category name in string order
NameRank(c) == CHOOSE k \in DOMAIN CategoryNames : CategoryNames[k] = c

Counted == pc = "returned" /\ call.op = "spending_category_frequency"

\* no category of the frame is left out of the table, and no row counted
\* for two
C9_EveryCategoryCounted ==
    Counted =>
        /\ {out[k].Category : k \in DOMAIN out} = FramedCategories
        /\ \A k, l \in DOMAIN out : k # l => out[k].Category # out[l].Category
        /\ \A k \in DOMAIN out :
              out[k].count = Cardinality({i \in Framed :
                                transactions[i].Category = out[k].Category})

\* the table is ordered by count, the larger first, and by name among equal
\* counts
C9_OrderedByCountThenName ==
    Counted =>
        \A k, l \in DOMAIN out :
            k < l => \/ out[k].count > out[l].count
                     \/ /\ out[k].count = out[l].count
                        /\ NameRank(out[k].Category) < NameRank(out[l].Category)

\* C9: spending_category_frequency yields every category of the frame, none
\* left out however many there are, each with the number of rows of the frame
\* that have it, ordered by count descending and by name ascending among
\* equal counts.
C9_FrequencyOfEveryCategory ==
    C9_EveryCategoryCounted /\ C9_OrderedByCountThenName

\* what the table does hold: the categories it lists are categories of the
\* frame with their exact counts, no more than five, counts descending, and
\* no category left out has more rows than a listed one
C9_FiveMostFrequent ==
    Counted =>
        /\ Len(out) = IF Cardinality(FramedCategories) < 5
                      THEN Cardinality(FramedCategories) ELSE 5
        /\ \A k, l \in DOMAIN out : k # l => out[k].Category # out[l].Category
        /\ \A k \in DOMAIN out :
              /\ out[k].Category \in FramedCategories
              /\ out[k].count = Cardinality({i \in Framed :
                                   transactions[i].Category = out[k].Category})
              /\ \A l \in DOMAIN out : k < l => out[k].count >= out[l].count
              /\ \A c \in FramedCategories \ {out[l].Category : l \in DOMAIN out} :
                    Cardinality({i \in Framed : transactions[i].Category = c})
                        <= out[k].count

\* the cents of the rows of the frame that have the category
CentsOfCategory(c) ==
    LET of_cat == {i \in Framed : transactions[i].Category = c}
        total[S \in SUBSET of_cat] ==
            IF S = {} THEN 0
            ELSE LET i == CHOOSE x \in S : TRUE
                 IN  transactions[i].Amount + total[S \ {i}]
    IN  total[of_cat]

Ranked == pc = "returned" /\ call.op = "top_categories" /\ call.amt >= 1

\* min(n, number of categories) pairs of a category of the frame and the sum
\* of its amounts, the totals descending, no category left out above a
\* listed one
C10_TopByTotal ==
    Ranked =>
        /\ Len(out) = IF Cardinality(FramedCategories) < call.amt
                      THEN Cardinality(FramedCategories) ELSE call.amt
        /\ \A k, l \in DOMAIN out : k # l => out[k].Category # out[l].Category
        /\ \A k \in DOMAIN out :
              /\ out[k].Category \in FramedCategories
              /\ out[k].Amount = CentsOfCategory(out[k].Category)
              /\ \A l \in DOMAIN out : k < l => out[k].Amount >= out[l].Amount
              /\ \A c \in FramedCategories \ {out[l].Category : l \in DOMAIN out} :
                    CentsOfCategory(c) <= out[k].Amount

\* categories of equal totals come in the order of their names
C10_TiesByName ==
    Ranked =>
        \A k, l \in DOMAIN out :
            (k < l /\ out[k].Amount = out[l].Amount)
                => NameRank(out[k].Category) < NameRank(out[l].Category)

\* C10: for n >= 1, top_categories returns min(n, number of categories)
\* pairs of a category and the sum of the amounts of its rows in the frame,
\* sorted by total descending and by name ascending among equal totals, and
\* no category left out has a greater total than a returned one.
C10_TopCategories == C10_TopByTotal /\ C10_TiesByName

\* C11: top_categories called with n <= 0 fails with InvalidArgumentError and
\* neither returns nor displays a table of categories.
C11_NonPositiveAmtFails ==
    (pc # "idle" /\ call.op = "top_categories" /\ call.amt <= 0) =>
        /\ pc = "raised:InvalidArgumentError"
        /\ out = <<>>

\* what the code does with n <= 0: it returns as for any n, and head(n)
\* prints no row for 0 and all but the last -n rows for n < 0
C11_NonPositiveAmtIsHead ==
    (pc # "idle" /\ call.op = "top_categories" /\ call.amt <= 0) =>
        /\ pc = "returned"
        /\ Len(out) = IF call.amt < 0
                         /\ Cardinality(FramedCategories) + call.amt > 0
                      THEN Cardinality(FramedCategories) + call.amt ELSE 0

(***************************************************************************)
(* Days of the week: stores of a few rows on two Mondays and the Tuesday   *)
(* between them, summarised whole, from the second day on, up to the first *)
(* day, and over a range that has no row.                                  *)
(***************************************************************************)
\* a Monday, the Tuesday after it and the Monday after that
DowCalendar == << <<2019, 12, 30>>, <<2019, 12, 31>>, <<2020, 1, 6>> >>

DowRows ==
    {Row(DowCalendar[d], <<"a">>, a, "debit", "Shopping", "Discover") :
        d \in DOMAIN DowCalendar, a \in {1000, 2051}}

DowRanges ==
    { <<Omitted, Omitted>>,
      <<MdyStr(DowCalendar[2]), Omitted>>,
      <<Omitted, MdyStr(DowCalendar[1])>>,
      <<MdyStr(<<2020, 2, 1>>), Omitted>> }

InitDow == \E rows \in SeqsUpTo(DowRows, MaxDowRows) : Construct(rows)

NextDow ==
    \/ Return
    \/ \E range \in DowRanges : day_of_week_summary(range[1], range[2])

SpecDow == InitDow /\ [][NextDow]_vars

\* the weekday a calendar date falls on, by Zeller's rule: 0 for a Saturday,
\* 1 for a Sunday, 2 for a Monday and so on
Zeller(date) ==
    LET m == IF date[2] <= 2 THEN date[2] + 12 ELSE date[2]
        y == IF date[2] <= 2 THEN date[1] - 1 ELSE date[1]
        K == y % 100
        J == y \div 100
    IN  (date[3] + ((13 * (m + 1)) \div 5) + K + (K \div 4) + (J \div 4)
            + (5 * J)) % 7

WeekdayNames ==
    <<"Monday", "Tuesday", "Wednesday", "Thursday", "Friday", "Saturday",
      "Sunday">>

\* the name of the weekday of a date
WeekdayName(date) == WeekdayNames[((Zeller(date) + 5) % 7) + 1]

\* the rows of the frame whose own date falls on the weekday
FramedOn(W) == {i \in Framed : WeekdayName(transactions[i].Date) = W}

Summarised == pc = "returned" /\ call.op = "day_of_week_summary"

\* the table the call shows
Summary == out[1].printed

\* the table has the seven weekdays, Monday to Sunday, in that order
C12_SevenWeekdays ==
    Summarised =>
        /\ Len(Summary) = 7
        /\ \A k \in 1..7 : Summary[k].day = WeekdayNames[k]

AllZero(row) ==
    /\ row.avg_transactions = Num(0)
    /\ row.mean = Num(0)
    /\ row.median = Num(0)
    /\ row.min = Num(0)
    /\ row.max = Num(0)

AllNaN(row) ==
    /\ row.avg_transactions = NaN
    /\ row.mean = NaN
    /\ row.median = NaN
    /\ row.min = NaN
    /\ row.max = NaN

\* a weekday no row of the frame falls on has all five statistics zero
C12_NoRowIsZero ==
    Summarised =>
        \A k \in DOMAIN Summary :
            FramedOn(Summary[k].day) = {} => AllZero(Summary[k])

\* C12: day_of_week_summary yields exactly the seven weekdays Monday..Sunday
\* in that order for any frame, the empty one included, and for a weekday
\* with no transaction all five statistics are zero, not NaN.
C12_SevenWeekdaysZeroFilled == C12_SevenWeekdays /\ C12_NoRowIsZero

\* what the code gives a weekday no row of the frame falls on: NaN five times
C12_NoRowIsNaN ==
    Summarised =>
        \A k \in DOMAIN Summary :
            FramedOn(Summary[k].day) = {} => AllNaN(Summary[k])

\* the cents of a set of rows of the store
CentsOf(S) ==
    LET total[T \in SUBSET S] ==
            IF T = {} THEN 0
            ELSE LET i == CHOOSE x \in T : TRUE
                 IN  transactions[i].Amount + total[T \ {i}]
    IN  total[S]

\* the dates the rows of the frame that fall on the weekday have
DatesOn(W) == {transactions[i].Date : i \in FramedOn(W)}

\* the total of a date: the cents of the rows of the frame that have it
DailyTotal(date) == CentsOf({i \in Framed : transactions[i].Date = date})

\* the k-th smallest of the daily totals of the dates D
KthTotal(D, k) ==
    CHOOSE x \in {DailyTotal(d) : d \in D} :
        /\ Cardinality({d \in D : DailyTotal(d) < x}) < k
        /\ Cardinality({d \in D : DailyTotal(d) <= x}) >= k

\* v is num/den rounded to a whole number, either way from half way
IsRounded(v, num, den) ==
    /\ 2 * (v * den - num) <= den
    /\ 2 * (num - v * den) <= den

\* the five statistics of a weekday that has rows, over the rows of the
\* frame whose own date falls on it: the mean number of rows per date (in
\* hundredths) and the mean, median, least and greatest daily total (cents)
StatsOfOwnWeekday(row) ==
    LET D == DatesOn(row.day)
        n == Cardinality(D)
    IN  /\ ~row.avg_transactions.nan
        /\ IsRounded(row.avg_transactions.v,
                     100 * Cardinality(FramedOn(row.day)), n)
        /\ ~row.mean.nan
        /\ IsRounded(row.mean.v, CentsOf(FramedOn(row.day)), n)
        /\ ~row.median.nan
        /\ IF n % 2 = 1
           THEN row.median.v = KthTotal(D, (n + 1) \div 2)
           ELSE IsRounded(row.median.v,
                          KthTotal(D, n \div 2) + KthTotal(D, n \div 2 + 1), 2)
        /\ row.min = Num(KthTotal(D, 1))
        /\ row.max = Num(KthTotal(D, n))

\* the table shown gives every weekday that has rows the statistics of the
\* rows whose own date falls on it
C13_OwnWeekdayStatistics ==
    Summarised =>
        \A k \in DOMAIN Summary :
            FramedOn(Summary[k].day) # {} => StatsOfOwnWeekday(Summary[k])

\* the caller is handed the table
C13_TableReturned == Summarised => out[1].kind = "DataFrame"

\* C13: for every range, one that leaves out the first rows of the store
\* included, day_of_week_summary returns to its caller a table in which the
\* statistics of each weekday are those of the rows of the frame whose own
\* date falls on that weekday.
C13_ReturnsOwnWeekdayStatistics ==
    C13_TableReturned /\ C13_OwnWeekdayStatistics

\* the frame is the first rows of the store, so that the weekday names line
\* up with the rows they were taken from
FrameIsPrefix == \A i \in Framed : \A j \in AllLabels : j < i => j \in Framed

\* what the code does: it hands back None, and the table it prints is right
\* where the frame starts at the first row of the store
C13_PrintedRightForPrefix ==
    (Summarised /\ FrameIsPrefix) =>
        /\ out[1].kind = "NoneType"
        /\ \A k \in DOMAIN Summary :
              FramedOn(Summary[k].day) # {} => StatsOfOwnWeekday(Summary[k])

(***************************************************************************)
(* Period comparisons: stores of a few rows, some of no amount, on days of *)
(* three weeks around the turn of a year, and a statement of seven weeks.  *)
(***************************************************************************)
\* a Monday, the Tuesday of the next week, and the two Mondays after it
CmpCalendar ==
    << <<2019, 12, 23>>, <<2019, 12, 31>>, <<2020, 1, 6>>, <<2020, 1, 13>> >>

CmpRows ==
    {Row(CmpCalendar[d], <<"a">>, a, "debit", "Shopping", "Discover") :
        d \in DOMAIN CmpCalendar, a \in {0, 1000}}

\* a purchase on each of seven Mondays in a row, a little more each week
CmpStatement ==
    << Row(<<2019, 12, 2>>, <<"a">>, 1000, "debit", "Shopping", "Discover"),
       Row(<<2019, 12, 9>>, <<"a">>, 1100, "debit", "Shopping", "Discover"),
       Row(<<2019, 12, 16>>, <<"a">>, 1200, "debit", "Shopping", "Discover"),
       Row(<<2019, 12, 23>>, <<"a">>, 1300, "debit", "Shopping", "Discover"),
       Row(<<2019, 12, 30>>, <<"a">>, 1400, "debit", "Shopping", "Discover"),
       Row(<<2020, 1, 6>>, <<"a">>, 1500, "debit", "Shopping", "Discover"),
       Row(<<2020, 1, 13>>, <<"a">>, 1600, "debit", "Shopping", "Discover") >>

CmpRanges ==
    { <<Omitted, Omitted>>,
      <<MdyStr(CmpCalendar[2]), Omitted>>,
      <<Omitted, MdyStr(CmpCalendar[2])>>,
      <<MdyStr(<<2020, 2, 1>>), Omitted>> }

InitCompare ==
    \E rows \in SeqsUpTo(CmpRows, MaxCmpRows) \cup {CmpStatement} :
        Construct(rows)

NextCompare ==
    \/ Return
    \/ \E range \in CmpRanges : compare_spendings(range[1], range[2])

SpecCompare == InitCompare /\ [][NextCompare]_vars

\* compare_spendings has built its tables (it builds the three of them
\* before it prints a sentence, so they stand whether it returns or raises)
Compared == pc # "idle" /\ call.op = "compare_spendings"

\* the table of a granularity: 1 weeks, 2 months, 3 years
TableOf(t) == out[t].table

\* the periods of every table are in the order of the calendar
C14_Chronological ==
    Compared =>
        \A t \in 1..3 : \A a, b \in DOMAIN TableOf(t) :
            a < b => TableOf(t)[a].key < TableOf(t)[b].key

\* the earliest period of every table has no percent change
C14_EarliestIsNull ==
    Compared =>
        \A t \in 1..3 :
            TableOf(t) # <<>> => TableOf(t)[1].Change.kind = "nan"

\* after a period of a total other than zero, the change is
\* (current - previous) / previous
C14_ChangeOverPrevious ==
    Compared =>
        \A t \in 1..3 : \A k \in DOMAIN TableOf(t) :
            (k > 1 /\ TableOf(t)[k - 1].Amount # 0) =>
                /\ TableOf(t)[k].Change.kind = "num"
                /\ TableOf(t)[k].Change.den # 0
                /\ TableOf(t)[k].Change.num * TableOf(t)[k - 1].Amount
                     = (TableOf(t)[k].Amount - TableOf(t)[k - 1].Amount)
                         * TableOf(t)[k].Change.den

\* after a period of total zero, the change is null
C14_ZeroPreviousIsNull ==
    Compared =>
        \A t \in 1..3 : \A k \in DOMAIN TableOf(t) :
            (k > 1 /\ TableOf(t)[k - 1].Amount = 0) =>
                TableOf(t)[k].Change.kind = "nan"

\* C14: in compare_spendings the periods of each granularity are in
\* chronological order, the percent change of the earliest is null, that of
\* a later period is (current - previous) / previous when the previous total
\* is not zero, and null, not infinite, when the previous total is zero.
C14_PercentChange ==
    /\ C14_Chronological
    /\ C14_EarliestIsNull
    /\ C14_ChangeOverPrevious
    /\ C14_ZeroPreviousIsNull

\* what the code gives after a period of total zero: an infinity of the sign
\* of the current total, and null for zero after zero
C14_ZeroPreviousIsInfinite ==
    Compared =>
        \A t \in 1..3 : \A k \in DOMAIN TableOf(t) :
            (k > 1 /\ TableOf(t)[k - 1].Amount = 0) =>
                TableOf(t)[k].Change.kind =
                    IF TableOf(t)[k].Amount > 0 THEN "inf"
                    ELSE IF TableOf(t)[k].Amount < 0 THEN "-inf" ELSE "nan"

(***************************************************************************)
(* Search: stores of a few rows of descriptions in capitals, in small      *)
(* letters and with a full stop, searched for words that occur in some, in *)
(* none and in all of them.                                                *)
(***************************************************************************)
SearchDescriptions ==
    { <<"A", "b">>, <<"B", "a">>, <<"a", ".", "b">>, <<"a", "a", "b">> }

SearchStoreRows ==
    {Row(Calendar[d], desc, 1000, "debit", "Shopping", "Discover") :
        d \in 1..2, desc \in SearchDescriptions}

SearchQueries ==
    { <<"a">>, <<"A", "B">>, <<"a", ".", "b">>, <<"c">>, <<>> }

SearchRanges ==
    { <<Omitted, Omitted>>, <<MdyStr(Calendar[2]), MdyStr(Calendar[2])>> }

InitSearch ==
    \E rows \in SeqsUpTo(SearchStoreRows, MaxSearchRows) : Construct(rows)

NextSearch ==
    \/ Return
    \/ \E desc \in SearchQueries, range \in SearchRanges :
          search_transactions(desc, range[1], range[2])

SpecSearch == InitSearch /\ [][NextSearch]_vars

\* a letter without its case
Fold(ch) == IF ch \in {"A", "a"} THEN "a"
            ELSE IF ch \in {"B", "b"} THEN "b" ELSE ch

\* the query occurs in the description, letter for letter but for case
OccursIn(query, description) ==
    \E k \in 0..(Len(description) - Len(query)) :
        \A j \in 1..Len(query) : Fold(description[k + j]) = Fold(query[j])

\* the rows of the frame the query occurs in
Matching == {i \in Framed : OccursIn(call.desc, transactions[i].Description)}

Searched == pc # "idle" /\ call.op = "search_transactions"

\* the records of the result
Found == out[1].rows

\* the result holds the matching rows, each once, in the order of the store
C15_ExactlyTheMatches ==
    Searched =>
        /\ pc = "returned"
        /\ Range(Found) = Matching
        /\ \A k, l \in DOMAIN Found : k < l => Found[k] < Found[l]

\* the result is a table of records, whether it has rows or not
C15_SameKindWhenEmpty == Searched => out[1].kind = "DataFrame"

\* C15: search_transactions(query) returns exactly the records of the range
\* whose description contains query as a substring, case ignored, and a
\* result of no record is a value of the same kind as one of some records.
C15_SearchReturnsMatches == C15_ExactlyTheMatches /\ C15_SameKindWhenEmpty

\* a query of letters only
LettersOnly == \A j \in DOMAIN call.desc : call.desc[j] # "."

\* what the code does: for a query of letters the rows found are the
\* matching ones, and the result is a sentence when there are none and a
\* table otherwise
C15_LettersMatchSentenceWhenEmpty ==
    (Searched /\ LettersOnly) =>
        /\ pc = "returned"
        /\ Range(Found) = Matching
        /\ out[1].kind = IF Matching = {} THEN "str" ELSE "DataFrame"

PeriodOfDate(t, date) ==
    CASE t = 1 -> EpochDay(date) - ((Zeller(date) + 5) % 7)
      [] t = 2 -> date[1] * 100 + date[2]
      [] OTHER -> date[1]

\* the periods the rows of the frame fall in
PeriodsFramed(t) == {PeriodOfDate(t, transactions[i].Date) : i \in Framed}

\* the i-th latest of a set of periods
Latest(P, i) == CHOOSE x \in P : Cardinality({y \in P : y > x}) = i - 1

\* the comparisons the call reports of a granularity
Reported(t) == out[t].sentences

\* a call on a frame with rows in it ends without an error
C17_CompletesOnRows ==
    (Compared /\ Framed # {}) => pc = "returned"

\* of k periods the call reports min(5, k - 1) comparisons, from the latest
\* period back, each with the period just before it
C17_ComparisonsReported ==
    Compared =>
        \A t \in 1..3 :
            LET P == PeriodsFramed(t)
                k == Cardinality(P)
                n == IF k = 0 THEN 0 ELSE IF k - 1 < 5 THEN k - 1 ELSE 5
            IN  /\ Len(Reported(t)) = n
                /\ \A i \in 1..n :
                      /\ Reported(t)[i].period = Latest(P, i)
                      /\ Reported(t)[i].prior = Latest(P, i + 1)

\* C17: on every frame with rows in it compare_spendings ends without an
\* error and reports, of each granularity of k periods, min(5, k - 1)
\* comparisons, each of a period with the one just before it and none of the
\* earliest period; of a single period it reports none.
C17_ComparesEveryFrame == C17_CompletesOnRows /\ C17_ComparisonsReported

\* some granularity has all the rows of the frame in one period
SinglePeriod == \E t \in 1..3 : Cardinality(PeriodsFramed(t)) = 1

\* what the code does where the frame is the first rows of the store: it
\* raises IndexError exactly when some granularity has a single period, and
\* reports as C17 says when none has
C17_RaisesOnSinglePeriod ==
    (Compared /\ FrameIsPrefix) =>
        /\ pc = IF SinglePeriod THEN "raised:IndexError" ELSE "returned"
        /\ ~SinglePeriod =>
              \A t \in 1..3 :
                  LET P == PeriodsFramed(t)
                      k == Cardinality(P)
                      n == IF k = 0 THEN 0 ELSE IF k - 1 < 5 THEN k - 1 ELSE 5
                  IN  /\ Len(Reported(t)) = n
                      /\ \A i \in 1..n :
                            /\ Reported(t)[i].period = Latest(P, i)
                            /\ Reported(t)[i].prior = Latest(P, i + 1)

=============================================================================
